---- MODULE Spec2Model ----
(***************************************************************************)
(* A model of backends/conrod_vulkano/examples/support/mod.rs: the Window  *)
(* helper (Window::new, get_dimensions, handle_resize) and the predicate   *)
(* format_is_srgb.  The graphics driver and the windowing library are the  *)
(* environment: every call into them draws its outcome nondeterministically*)
(* and the surface's reported capabilities change between steps.           *)
(***************************************************************************)
EXTENDS Integers, Sequences, FiniteSets, TLC

(***************************************************************************)
(* Bounds of the model.                                                    *)
(***************************************************************************)
\* longest list of (format, color space) pairs a surface reports
MaxFormats == 2
\* swapchain builds (identities handed out) in one behaviour
MaxBuilds == 3
\* nested recursive handle_resize calls the stack holds; it stands for the
\* build's frame size and the thread's stack limit
MaxDepth == 2

(***************************************************************************)
(* Option values: None is the empty tuple, Some(x) the one-element tuple.  *)
(***************************************************************************)
None == << >>
Some(x) == << x >>
IsSome(o) == o /= None
Unwrap(o) == o[1]

(***************************************************************************)
(* vulkano::format::Format.  A format is named layout ++ ty ++ pack, e.g.  *)
(* R8G8B8A8 ++ Srgb, A8B8G8R8 ++ Srgb ++ Pack32, BC7 ++ Srgb ++ Block.     *)
(***************************************************************************)
Fmt(layout, ty, pack) == [layout |-> layout, ty |-> ty, pack |-> pack]

AstcBlocks ==
    {"ASTC_4x4", "ASTC_5x4", "ASTC_5x5", "ASTC_6x5", "ASTC_6x6", "ASTC_8x5",
     "ASTC_8x6", "ASTC_8x8", "ASTC_10x5", "ASTC_10x6", "ASTC_10x8",
     "ASTC_10x10", "ASTC_12x10", "ASTC_12x12"}

Format ==
    {Fmt("R4G4", "Unorm", "Pack8")}
    \cup {Fmt(l, "Unorm", "Pack16") :
            l \in {"R4G4B4A4", "B4G4R4A4", "R5G6B5", "B5G6R5", "R5G5B5A1",
                   "B5G5R5A1", "A1R5G5B5"}}
    \cup {Fmt(l, t, "") :
            l \in {"R8", "R8G8", "R8G8B8", "B8G8R8", "R8G8B8A8", "B8G8R8A8"},
            t \in {"Unorm", "Snorm", "Uscaled", "Sscaled", "Uint", "Sint", "Srgb"}}
    \cup {Fmt("A8B8G8R8", t, "Pack32") :
            t \in {"Unorm", "Snorm", "Uscaled", "Sscaled", "Uint", "Sint", "Srgb"}}
    \cup {Fmt(l, t, "Pack32") :
            l \in {"A2R10G10B10", "A2B10G10R10"},
            t \in {"Unorm", "Snorm", "Uscaled", "Sscaled", "Uint", "Sint"}}
    \cup {Fmt(l, t, "") :
            l \in {"R16", "R16G16", "R16G16B16", "R16G16B16A16"},
            t \in {"Unorm", "Snorm", "Uscaled", "Sscaled", "Uint", "Sint", "Sfloat"}}
    \cup {Fmt(l, t, "") :
            l \in {"R32", "R32G32", "R32G32B32", "R32G32B32A32",
                   "R64", "R64G64", "R64G64B64", "R64G64B64A64"},
            t \in {"Uint", "Sint", "Sfloat"}}
    \cup {Fmt("B10G11R11", "Ufloat", "Pack32"), Fmt("E5B9G9R9", "Ufloat", "Pack32"),
          Fmt("D16", "Unorm", ""), Fmt("X8_D24", "Unorm", "Pack32"),
          Fmt("D32", "Sfloat", ""), Fmt("S8", "Uint", ""),
          Fmt("D16Unorm_S8", "Uint", ""), Fmt("D24Unorm_S8", "Uint", ""),
          Fmt("D32Sfloat_S8", "Uint", "")}
    \cup {Fmt(l, t, "Block") :
            l \in {"BC1_RGB", "BC1_RGBA", "BC2", "BC3", "BC7", "ETC2_R8G8B8",
                   "ETC2_R8G8B8A1", "ETC2_R8G8B8A8"} \cup AstcBlocks,
            t \in {"Unorm", "Srgb"}}
    \cup {Fmt(l, t, "Block") : l \in {"BC4", "BC5", "EAC_R11", "EAC_R11G11"},
                               t \in {"Unorm", "Snorm"}}
    \cup {Fmt("BC6H", t, "Block") : t \in {"Ufloat", "Sfloat"}}

(***************************************************************************)
(* format_is_srgb: the match of the source, arm by arm.                    *)
(***************************************************************************)
format_is_srgb_missing_arm(format) ==
    format \in
        {Fmt("R8", "Srgb", ""), Fmt("R8G8", "Srgb", ""), Fmt("R8G8B8", "Srgb", ""),
         Fmt("B8G8R8", "Srgb", ""), Fmt("R8G8B8A8", "Srgb", ""),
         Fmt("A8B8G8R8", "Srgb", "Pack32"),
         Fmt("BC1_RGB", "Srgb", "Block"), Fmt("BC1_RGBA", "Srgb", "Block"),
         Fmt("BC2", "Srgb", "Block"), Fmt("BC3", "Srgb", "Block"),
         Fmt("BC7", "Srgb", "Block"),
         Fmt("ETC2_R8G8B8", "Srgb", "Block"), Fmt("ETC2_R8G8B8A1", "Srgb", "Block"),
         Fmt("ETC2_R8G8B8A8", "Srgb", "Block")}
        \cup {Fmt(b, "Srgb", "Block") : b \in AstcBlocks}

format_is_srgb(format) ==
    CASE format = Fmt("R8", "Srgb", "") -> TRUE
      [] format = Fmt("R8G8", "Srgb", "") -> TRUE
      [] format = Fmt("R8G8B8", "Srgb", "") -> TRUE
      [] format = Fmt("B8G8R8", "Srgb", "") -> TRUE
      [] format = Fmt("R8G8B8A8", "Srgb", "") -> TRUE
      [] format = Fmt("B8G8R8A8", "Srgb", "") -> TRUE
      [] format = Fmt("A8B8G8R8", "Srgb", "Pack32") -> TRUE
      [] format = Fmt("BC1_RGB", "Srgb", "Block") -> TRUE
      [] format = Fmt("BC1_RGBA", "Srgb", "Block") -> TRUE
      [] format = Fmt("BC2", "Srgb", "Block") -> TRUE
      [] format = Fmt("BC3", "Srgb", "Block") -> TRUE
      [] format = Fmt("BC7", "Srgb", "Block") -> TRUE
      [] format = Fmt("ETC2_R8G8B8", "Srgb", "Block") -> TRUE
      [] format = Fmt("ETC2_R8G8B8A1", "Srgb", "Block") -> TRUE
      [] format = Fmt("ETC2_R8G8B8A8", "Srgb", "Block") -> TRUE
      [] format = Fmt("ASTC_4x4", "Srgb", "Block") -> TRUE
      [] format = Fmt("ASTC_5x4", "Srgb", "Block") -> TRUE
      [] format = Fmt("ASTC_5x5", "Srgb", "Block") -> TRUE
      [] format = Fmt("ASTC_6x5", "Srgb", "Block") -> TRUE
      [] format = Fmt("ASTC_6x6", "Srgb", "Block") -> TRUE
      [] format = Fmt("ASTC_8x5", "Srgb", "Block") -> TRUE
      [] format = Fmt("ASTC_8x6", "Srgb", "Block") -> TRUE
      [] format = Fmt("ASTC_8x8", "Srgb", "Block") -> TRUE
      [] format = Fmt("ASTC_10x5", "Srgb", "Block") -> TRUE
      [] format = Fmt("ASTC_10x6", "Srgb", "Block") -> TRUE
      [] format = Fmt("ASTC_10x8", "Srgb", "Block") -> TRUE
      [] format = Fmt("ASTC_10x10", "Srgb", "Block") -> TRUE
      [] format = Fmt("ASTC_12x10", "Srgb", "Block") -> TRUE
      [] format = Fmt("ASTC_12x12", "Srgb", "Block") -> TRUE
      [] OTHER -> FALSE

(***************************************************************************)
(* The environment's value sets.                                           *)
(***************************************************************************)
B8G8R8A8Srgb == Fmt("B8G8R8A8", "Srgb", "")
R8G8B8A8Srgb == Fmt("R8G8B8A8", "Srgb", "")
B8G8R8A8Unorm == Fmt("B8G8R8A8", "Unorm", "")

\* (format, color space) pairs a surface may report, in any order
SurfaceFormatPairs ==
    {<<B8G8R8A8Unorm, "SrgbNonLinear">>, <<B8G8R8A8Srgb, "SrgbNonLinear">>,
     <<R8G8B8A8Srgb, "SrgbNonLinear">>, <<B8G8R8A8Srgb, "ExtendedSrgbLinear">>}

SeqsUpTo(S, n) == UNION {[1..k -> S] : k \in 0..n}

\* width/height passed to Window::new; never an extent the surface reports
RequestedSizes == {<<640, 480>>, <<320, 240>>}
\* extents the surface reports, and sizes the window reports
Extents == {<<800, 600>>, <<1024, 768>>}
MinImageCounts == {2, 3}
CompositeAlphaLists == {<< >>, <<"Opaque", "Inherit">>}

Capabilities ==
    [min_image_count : MinImageCounts,
     current_extent : {None} \cup {Some(e) : e \in Extents},
     supported_formats : SeqsUpTo(SurfaceFormatPairs, MaxFormats),
     supported_composite_alpha : CompositeAlphaLists]

\* Result<_, SwapchainCreationError> of a swapchain build, by variant
BuildResults == {"Ok", "UnsupportedDimensions", "SurfaceLost", "OldSwapchainAlreadyUsed"}

VARIABLES
    pc,          \* where the program is: a step of Window::new, "idle" (a Window
                 \* exists, no call running), a step of handle_resize, "aborted"
    args,        \* (width, height) given to Window::new
    caps,        \* what surface.capabilities() reports now (environment)
    locals,      \* the running call's local variables
    window,      \* None, or Some(the Window value) once Window::new returned
    ran,         \* the steps of Window::new run so far, each with its outcome
    abortedAt,   \* the panic message once aborted, "" before
    retries,     \* recursive handle_resize calls made by the running call
    buildResult, \* the build result matched by the latest handle_resize attempt
    ret,         \* the value get_dimensions returned last
    nextId,      \* identity of the next swapchain the driver builds
    fmt_arg,     \* format_is_srgb's argument (SpecSrgb)
    fmt_ret,     \* format_is_srgb's latest result on fmt_arg (SpecSrgb)
    fmt_prev     \* its result before that on the same fmt_arg (SpecSrgb)

vars == <<pc, args, caps, locals, window, ran, abortedAt, retries, buildResult,
          ret, nextId, fmt_arg, fmt_ret, fmt_prev>>

NoLocals == [caps |-> None, surface_dimensions |-> None, format |-> None,
             new_dimensions |-> None]

NewSteps == <<"new_instance", "new_physical", "new_surface", "new_queue_family",
              "new_device", "new_caps", "new_alpha", "new_format", "new_build">>

InNew == \E i \in 1..Len(NewSteps) : pc = NewSteps[i]
InResize == pc \in {"resize_retry", "resize_build"}

(***************************************************************************)
(* .expect(..) / .unwrap(): continue on success, abort the process if not. *)
(***************************************************************************)
ExpectSwallowsFailure(ok, next) == next

Expect(ok, next) == IF ok THEN next ELSE "aborted"

Panic(ok, msg) == IF ok THEN abortedAt ELSE msg

(***************************************************************************)
(* Window::new, step by step.  A step that calls the driver or the         *)
(* windowing library draws the call's outcome.                             *)
(***************************************************************************)
Ran(step, ok) == Append(ran, [step |-> step, ok |-> ok])

\* a step of Window::new that only succeeds or aborts
PlainStep(step, next, msg) ==
    /\ pc = step
    /\ \E ok \in BOOLEAN :
        /\ pc' = Expect(ok, next)
        /\ abortedAt' = Panic(ok, msg)
        /\ ran' = Ran(step, ok)
    /\ UNCHANGED <<args, caps, locals, window, retries, buildResult, ret, nextId,
                   fmt_arg, fmt_ret, fmt_prev>>

NewInstance == PlainStep("new_instance", "new_physical", "failed to create Vulkan instance")

NewPhysical == PlainStep("new_physical", "new_surface", "no device available")

NewSurface == PlainStep("new_surface", "new_queue_family", "build_vk_surface unwrap")

NewQueueFamily ==
    PlainStep("new_queue_family", "new_device", "couldn't find a graphical queue family")

NewDevice == PlainStep("new_device", "new_caps", "failed to create device")

\* caps.current_extent.unwrap_or([width, height])
SurfaceDimensions(c, wh) ==
    IF IsSome(c.current_extent) THEN Unwrap(c.current_extent) ELSE wh

NewCaps ==
    /\ pc = "new_caps"
    /\ \E ok \in BOOLEAN :
        /\ pc' = Expect(ok, "new_alpha")
        /\ abortedAt' = Panic(ok, "failed to get surface capabilities")
        /\ ran' = Ran("new_caps", ok)
        /\ locals' = IF ok
                     THEN [locals EXCEPT !.caps = Some(caps),
                                         !.surface_dimensions =
                                             Some(SurfaceDimensions(caps, args))]
                     ELSE locals
    /\ UNCHANGED <<args, caps, window, retries, buildResult, ret, nextId,
                   fmt_arg, fmt_ret, fmt_prev>>

NewAlpha ==
    /\ pc = "new_alpha"
    /\ LET ok == Unwrap(locals.caps).supported_composite_alpha /= << >>
       IN /\ pc' = Expect(ok, "new_format")
          /\ abortedAt' = Panic(ok, "supported_composite_alpha unwrap")
          /\ ran' = Ran("new_alpha", ok)
    /\ UNCHANGED <<args, caps, locals, window, retries, buildResult, ret, nextId,
                   fmt_arg, fmt_ret, fmt_prev>>

(***************************************************************************)
(* The format selection of Window::new: filter, map to the format, next(). *)
(***************************************************************************)
RECURSIVE FirstMatch(_, _)
\* the least index from i on whose pair passes the filter, 0 when none does
FirstMatch(fs, i) ==
    IF i > Len(fs) THEN 0
    ELSE IF format_is_srgb(fs[i][1]) /\ fs[i][2] = "SrgbNonLinear" THEN i
    ELSE FirstMatch(fs, i + 1)

RECURSIVE LastMatch(_, _)
LastMatch(fs, i) ==
    IF i < 1 THEN 0
    ELSE IF format_is_srgb(fs[i][1]) /\ fs[i][2] = "SrgbNonLinear" THEN i
    ELSE LastMatch(fs, i - 1)

SelectLastFormat(fs) ==
    LET i == LastMatch(fs, Len(fs)) IN IF i = 0 THEN None ELSE Some(fs[i][1])

RECURSIVE FirstSrgb(_, _)
FirstSrgb(fs, i) ==
    IF i > Len(fs) THEN 0
    ELSE IF format_is_srgb(fs[i][1]) THEN i
    ELSE FirstSrgb(fs, i + 1)

SelectFormatAnyColorSpace(fs) ==
    LET i == FirstSrgb(fs, 1) IN IF i = 0 THEN None ELSE Some(fs[i][1])

SelectFormat(fs) ==
    LET i == FirstMatch(fs, 1) IN IF i = 0 THEN None ELSE Some(fs[i][1])

NewFormat ==
    /\ pc = "new_format"
    /\ LET format == SelectFormat(Unwrap(locals.caps).supported_formats)
           ok == IsSome(format)
       IN /\ pc' = Expect(ok, "new_build")
          /\ abortedAt' = Panic(ok, "failed to find sRGB format")
          /\ ran' = Ran("new_format", ok)
          /\ locals' = [locals EXCEPT !.format = format]
    /\ UNCHANGED <<args, caps, window, retries, buildResult, ret, nextId,
                   fmt_arg, fmt_ret, fmt_prev>>

(***************************************************************************)
(* What a successful build hands back: the swapchain and its images.       *)
(***************************************************************************)
Images(sc) == [swapchain |-> sc.id, len |-> sc.num_images]

\* Swapchain::start(..).num_images(..).format(..).dimensions(..)...build()
StartSwapchain(c, format, dims, id) ==
    [id |-> id,
     num_images |-> c.min_image_count,
     format |-> format,
     dimensions |-> dims,
     composite_alpha |-> Head(c.supported_composite_alpha)]

NewBuild ==
    /\ pc = "new_build"
    /\ \E res \in BuildResults :
        LET ok == res = "Ok"
            sc == StartSwapchain(Unwrap(locals.caps), Unwrap(locals.format),
                                 Unwrap(locals.surface_dimensions), nextId)
        IN /\ pc' = Expect(ok, "idle")
           /\ abortedAt' = Panic(ok, "failed to create swapchain")
           /\ ran' = Ran("new_build", ok)
           /\ window' = IF ok
                        THEN Some([surface |-> "surface", swapchain |-> sc,
                                   queue |-> "queue", device |-> "device",
                                   images |-> Images(sc)])
                        ELSE window
           /\ nextId' = IF ok THEN nextId + 1 ELSE nextId
           /\ locals' = IF ok THEN NoLocals ELSE locals
    /\ UNCHANGED <<args, caps, retries, buildResult, ret,
                   fmt_arg, fmt_ret, fmt_prev>>

(***************************************************************************)
(* get_dimensions: Some(the window's inner size), read from the windowing  *)
(* library.                                                                *)
(***************************************************************************)
GetDimensions ==
    /\ pc = "idle"
    /\ \E inner_size \in Extents : ret' = Some(inner_size)
    /\ UNCHANGED <<pc, args, caps, locals, window, ran, abortedAt, retries,
                   buildResult, nextId, fmt_arg, fmt_ret, fmt_prev>>

(***************************************************************************)
(* handle_resize.  One attempt is the capability query and then the        *)
(* rebuild; the surface may change between the two.                        *)
(***************************************************************************)
ResizeExtentOrOld(c, sc) ==
    IF IsSome(c.current_extent) THEN c.current_extent ELSE Some(sc.dimensions)

\* .capabilities(..).expect(..).current_extent, before the .unwrap()
ResizeExtent(c, sc) == c.current_extent

ResizeQuery ==
    \E queried \in BOOLEAN :
        LET extent == ResizeExtent(caps, Unwrap(window).swapchain)
            ok == queried /\ IsSome(extent)
        IN /\ pc' = Expect(ok, "resize_build")
           /\ abortedAt' = IF ~queried THEN "failed to get surface capabilities"
                           ELSE Panic(ok, "current_extent unwrap")
           /\ locals' = IF ok THEN [locals EXCEPT !.new_dimensions = extent]
                        ELSE locals
           /\ UNCHANGED <<args, caps, window, ran, nextId, fmt_arg, fmt_ret, fmt_prev>>

\* a call from the application
HandleResize ==
    /\ pc = "idle"
    /\ nextId <= MaxBuilds
    /\ ResizeQuery
    /\ retries' = 0
    /\ buildResult' = None
    /\ ret' = None

\* the recursive call after UnsupportedDimensions, while the stack holds its frame
HandleResizeRetry ==
    /\ pc = "resize_retry"
    /\ retries <= MaxDepth
    /\ ResizeQuery
    /\ UNCHANGED <<retries, buildResult, ret>>

\* the recursive call for which no stack is left: the runtime aborts the process
StackOverflow ==
    /\ pc = "resize_retry"
    /\ retries > MaxDepth
    /\ pc' = "aborted"
    /\ abortedAt' = "stack overflow"
    /\ UNCHANGED <<args, caps, locals, window, ran, retries, buildResult, ret,
                   nextId, fmt_arg, fmt_ret, fmt_prev>>

RecreateKeepingDimensions(sc, dims, id) == [sc EXCEPT !.id = id]

\* self.swapchain.recreate().dimensions(new_dimensions).build(), when Ok
Recreate(sc, dims, id) == [sc EXCEPT !.id = id, !.dimensions = dims]

MatchBuildRetriesAll(res) ==
    IF res = "Ok" THEN "store" ELSE "retry"

MatchBuildGivesUp(res) ==
    CASE res = "Ok" -> "store"
      [] res = "UnsupportedDimensions" -> "return"
      [] OTHER -> "panic"

\* the match on the build's result
MatchBuild(res) ==
    CASE res = "Ok" -> "store"
      [] res = "UnsupportedDimensions" -> "retry"
      [] OTHER -> "panic"

StoreSwapchainOnly(w, sc) == [w EXCEPT !.swapchain = sc]

StoreAndRebind(w, sc) ==
    [w EXCEPT !.swapchain = sc, !.images = Images(sc), !.queue = "queue2"]

\* self.swapchain = new_swapchain; self.images = new_images;
Store(w, sc) == [w EXCEPT !.swapchain = sc, !.images = Images(sc)]

ResizeBuild ==
    /\ pc = "resize_build"
    /\ \E res \in BuildResults :
        LET arm == MatchBuild(res)
            new_swapchain == Recreate(Unwrap(window).swapchain,
                                      Unwrap(locals.new_dimensions), nextId)
        IN /\ buildResult' = Some(res)
           /\ pc' = CASE arm = "store" -> "idle"
                      [] arm = "retry" -> "resize_retry"
                      [] arm = "return" -> "idle"
                      [] OTHER -> "aborted"
           /\ abortedAt' = IF arm = "panic" THEN "Window couldn't be resized!"
                           ELSE abortedAt
           /\ window' = IF arm = "store" THEN Some(Store(Unwrap(window), new_swapchain))
                        ELSE window
           /\ nextId' = IF res = "Ok" THEN nextId + 1 ELSE nextId
           /\ retries' = IF arm = "retry" THEN retries + 1 ELSE retries
           /\ locals' = IF arm \in {"store", "return"} THEN NoLocals ELSE locals
    /\ UNCHANGED <<args, caps, ran, ret, fmt_arg, fmt_ret, fmt_prev>>

(***************************************************************************)
(* The environment: the surface's reported capabilities change between the *)
(* calls on a Window and while handle_resize runs (the application's event *)
(* loop, which resizes the window, runs once Window::new has returned).    *)
(***************************************************************************)
SurfaceExists ==
    IsSome(window) /\ pc \in {"idle", "resize_retry", "resize_build"}

ExtentChanges ==
    /\ SurfaceExists
    /\ \E e \in {None} \cup {Some(x) : x \in Extents} :
        /\ e /= caps.current_extent
        /\ caps' = [caps EXCEPT !.current_extent = e]
    /\ UNCHANGED <<pc, args, locals, window, ran, abortedAt, retries, buildResult,
                   ret, nextId, fmt_arg, fmt_ret, fmt_prev>>

MinImageCountChanges ==
    /\ SurfaceExists
    /\ \E n \in MinImageCounts :
        /\ n /= caps.min_image_count
        /\ caps' = [caps EXCEPT !.min_image_count = n]
    /\ UNCHANGED <<pc, args, locals, window, ran, abortedAt, retries, buildResult,
                   ret, nextId, fmt_arg, fmt_ret, fmt_prev>>

(***************************************************************************)
(* The specification of the Window.                                        *)
(***************************************************************************)
Init ==
    /\ pc = "new_instance"
    /\ args \in RequestedSizes
    /\ caps \in Capabilities
    /\ locals = NoLocals
    /\ window = None
    /\ ran = << >>
    /\ abortedAt = ""
    /\ retries = 0
    /\ buildResult = None
    /\ ret = None
    /\ nextId = 1
    /\ fmt_arg = None
    /\ fmt_ret = None
    /\ fmt_prev = None

Next ==
    \/ NewInstance
    \/ NewPhysical
    \/ NewSurface
    \/ NewQueueFamily
    \/ NewDevice
    \/ NewCaps
    \/ NewAlpha
    \/ NewFormat
    \/ NewBuild
    \/ GetDimensions
    \/ HandleResize
    \/ HandleResizeRetry
    \/ StackOverflow
    \/ ResizeBuild
    \/ ExtentChanges
    \/ MinImageCountChanges

Spec == Init /\ [][Next]_vars

\* a running handle_resize call keeps running: the call is synchronous
FairSpec ==
    Spec /\ WF_vars(HandleResizeRetry) /\ WF_vars(StackOverflow) /\ WF_vars(ResizeBuild)

(***************************************************************************)
(* The specification of format_is_srgb alone: any format, called any       *)
(* number of times.                                                        *)
(***************************************************************************)
InitSrgb ==
    /\ pc = "srgb"
    /\ args = << >>
    /\ caps = [min_image_count |-> 2, current_extent |-> None,
               supported_formats |-> << >>, supported_composite_alpha |-> << >>]
    /\ locals = NoLocals
    /\ window = None
    /\ ran = << >>
    /\ abortedAt = ""
    /\ retries = 0
    /\ buildResult = None
    /\ ret = None
    /\ nextId = 1
    /\ fmt_arg \in {Some(f) : f \in Format}
    /\ fmt_ret = None
    /\ fmt_prev = None

PickFormat ==
    /\ pc = "srgb"
    /\ \E f \in Format : fmt_arg' = Some(f)
    /\ fmt_ret' = None
    /\ fmt_prev' = None
    /\ UNCHANGED <<pc, args, caps, locals, window, ran, abortedAt, retries,
                   buildResult, ret, nextId>>

CallFormatIsSrgb ==
    /\ pc = "srgb"
    /\ fmt_ret' = Some(format_is_srgb(Unwrap(fmt_arg)))
    /\ fmt_prev' = fmt_ret
    /\ UNCHANGED <<pc, args, caps, locals, window, ran, abortedAt, retries,
                   buildResult, ret, nextId, fmt_arg>>

NextSrgb == PickFormat \/ CallFormatIsSrgb

SpecSrgb == InitSrgb /\ [][NextSrgb]_vars

(***************************************************************************)
(* Properties.                                                             *)
(***************************************************************************)
Swapchain == Unwrap(window).swapchain

\* the pair at index i of fs passes the filter of Window::new
Passes(fs, i) == format_is_srgb(fs[i][1]) /\ fs[i][2] = "SrgbNonLinear"

\* C1: once a Window exists, its swapchain's format is one format_is_srgb
\* accepts and the surface lists with SrgbNonLinear; no step changes the format.
C1_FormatStaysSrgb ==
    /\ [](IsSome(window) =>
            /\ format_is_srgb(Swapchain.format)
            /\ \E i \in 1..Len(caps.supported_formats) :
                  caps.supported_formats[i] = <<Swapchain.format, "SrgbNonLinear">>)
    /\ [][IsSome(window) =>
            /\ IsSome(window')
            /\ Unwrap(window').swapchain.format = Swapchain.format]_vars

\* C1 witness: a handle_resize call rebuilt the swapchain of a surface whose
\* first listed format is not an sRGB one.
C1_Witness ==
    /\ IsSome(window)
    /\ Swapchain.id >= 2
    /\ Len(caps.supported_formats) = 2
    /\ caps.supported_formats[1][1] = B8G8R8A8Unorm

\* C2: the stored images are always those of the build that produced the stored
\* swapchain, and every step other than a successful build (a retried or an
\* aborted attempt included) leaves both as they were.
C2_SwapchainAndImagesTogether ==
    /\ [](IsSome(window) =>
            /\ Unwrap(window).images.swapchain = Swapchain.id
            /\ Unwrap(window).images.len = Swapchain.num_images)
    /\ [][(IsSome(window) /\ ~(pc = "resize_build" /\ buildResult' = Some("Ok")))
            => window' = window]_vars
    /\ [][(pc = "resize_build" /\ buildResult' = Some("Ok")) =>
            /\ Unwrap(window').swapchain.id = nextId
            /\ Unwrap(window').images.swapchain = nextId]_vars

\* C2 witness: a call that retried has returned with a rebuilt swapchain.
C2_Witness ==
    /\ pc = "idle"
    /\ retries >= 1
    /\ Swapchain.id >= 2
    /\ Unwrap(window).images.swapchain = Swapchain.id

\* C3: an attempt that fails with UnsupportedDimensions is followed at once by
\* a fresh attempt, which queries the extent again, and so on until an attempt
\* succeeds: the call never returns with the old swapchain because of
\* UnsupportedDimensions, the recursive call always runs its capability query,
\* and if UnsupportedDimensions stops being reported, a running handle_resize
\* call returns or aborts.
C3_RetryUntilDone ==
    /\ [][(pc = "resize_build" /\ pc' /= pc
             /\ buildResult' = Some("UnsupportedDimensions"))
            => (pc' = "resize_retry" /\ window' = window)]_vars
    /\ [][(pc = "resize_retry" /\ pc' /= pc)
            => \/ (pc' = "resize_build"
                    /\ locals'.new_dimensions = caps.current_extent)
               \/ (pc' = "aborted"
                    /\ abortedAt' \in {"failed to get surface capabilities",
                                       "current_extent unwrap"})]_vars
    /\ (<>[](buildResult /= Some("UnsupportedDimensions")))
          => (InResize ~> pc \in {"idle", "aborted"})

\* C4: a build error other than UnsupportedDimensions aborts the process at
\* once, with the stored swapchain and images as they were.
C4_OtherErrorAborts ==
    /\ [][(pc = "resize_build" /\ pc' /= pc
             /\ buildResult' \notin {Some("Ok"), Some("UnsupportedDimensions")})
            => (pc' = "aborted" /\ window' = window
                /\ abortedAt' = "Window couldn't be resized!")]_vars
    /\ []((IsSome(buildResult)
             /\ Unwrap(buildResult) \notin {"Ok", "UnsupportedDimensions"})
            => pc = "aborted")

\* C4 witness: a call retried and then aborted on SurfaceLost.
C4_Witness ==
    /\ pc = "aborted"
    /\ retries >= 1
    /\ buildResult = Some("SurfaceLost")
    /\ IsSome(window)

\* C5 as claimed: in every state the stored swapchain's image count is at least
\* the currently reported minimum and its dimensions equal the currently
\* reported extent, when one is defined.
C5_Original ==
    IsSome(window) =>
        /\ Swapchain.num_images >= caps.min_image_count
        /\ IsSome(caps.current_extent) =>
              Swapchain.dimensions = Unwrap(caps.current_extent)

\* C5 amended: a stored swapchain has the dimensions its own call's capability
\* query reported (in Window::new the requested size when none is defined) and
\* the minimum image count Window::new's query reported, which handle_resize
\* keeps; they follow the surface only at the next successful handle_resize.
C5_AsOfTheBuildingQuery ==
    /\ [][(IsSome(locals'.surface_dimensions)
             /\ locals'.surface_dimensions /= locals.surface_dimensions)
            => /\ locals'.surface_dimensions =
                    (IF IsSome(caps.current_extent) THEN caps.current_extent
                     ELSE Some(args))
               /\ locals'.caps = Some(caps)]_vars
    /\ [][(IsSome(locals'.new_dimensions)
             /\ locals'.new_dimensions /= locals.new_dimensions)
            => locals'.new_dimensions = caps.current_extent]_vars
    /\ [][(window' /= window) =>
            IF window = None
            THEN /\ Unwrap(window').swapchain.dimensions = Unwrap(locals.surface_dimensions)
                 /\ Unwrap(window').swapchain.num_images =
                        Unwrap(locals.caps).min_image_count
            ELSE /\ Unwrap(window').swapchain.dimensions = Unwrap(locals.new_dimensions)
                 /\ Unwrap(window').swapchain.num_images = Swapchain.num_images]_vars

\* C5 witness: after a successful handle_resize the surface reports a larger
\* minimum image count and another extent than the stored swapchain has.
C5_Witness ==
    /\ pc = "idle"
    /\ Swapchain.id >= 2
    /\ Swapchain.num_images < caps.min_image_count
    /\ IsSome(caps.current_extent)
    /\ Swapchain.dimensions /= Unwrap(caps.current_extent)

\* C6: the format Window::new selects is that of the first listed pair whose
\* format is sRGB and whose color space is SrgbNonLinear; with no such pair
\* construction aborts and there is never a Window.
C6_FirstSrgbNonLinear ==
    LET fs == caps.supported_formats
        some == \E i \in 1..Len(fs) : Passes(fs, i)
        chosen == IF IsSome(window) THEN Some(Swapchain.format) ELSE locals.format
    IN /\ (pc = "new_build" \/ IsSome(window)) =>
             \E i \in 1..Len(fs) :
                 /\ Passes(fs, i)
                 /\ \A j \in 1..(i - 1) : ~Passes(fs, j)
                 /\ chosen = Some(fs[i][1])
       /\ ~some =>
             /\ window = None
             /\ pc \notin {"new_build", "idle", "resize_retry", "resize_build"}
             /\ (Len(ran) >= 8 => (pc = "aborted" /\ ~ran[Len(ran)].ok))

\* C6 witness: a Window built on a surface that lists two different passing pairs.
C6_Witness ==
    /\ IsSome(window)
    /\ Len(caps.supported_formats) = 2
    /\ Passes(caps.supported_formats, 1)
    /\ Passes(caps.supported_formats, 2)
    /\ caps.supported_formats[1][1] /= caps.supported_formats[2][1]

\* C7: the steps of Window::new run in order, a failed step is the last one run
\* and aborts the process with no Window, and a Window exists only after all
\* nine steps succeeded, holding a surface, device, queue, swapchain and images.
C7_AllOrNothing ==
    /\ Len(ran) <= Len(NewSteps)
    /\ \A i \in 1..Len(ran) :
          /\ ran[i].step = NewSteps[i]
          /\ ~ran[i].ok => (i = Len(ran) /\ pc = "aborted" /\ window = None)
    /\ InNew => (window = None /\ pc = NewSteps[Len(ran) + 1])
    /\ IsSome(window) =>
          /\ Len(ran) = Len(NewSteps)
          /\ \A i \in 1..Len(ran) : ran[i].ok
          /\ DOMAIN Unwrap(window) = {"surface", "swapchain", "queue", "device", "images"}
          /\ Unwrap(window).images.swapchain = Swapchain.id
    /\ (pc = "aborted" /\ window = None) => (Len(ran) >= 1 /\ ~ran[Len(ran)].ok)

\* C7 witness: construction aborted at the format step, after seven good steps.
C7_Witness ==
    /\ pc = "aborted"
    /\ window = None
    /\ Len(ran) = 8
    /\ ran[8].step = "new_format"
    /\ ~ran[8].ok

\* the formats the claim lists as sRGB-encoded
ClaimedSrgbFormats ==
    {Fmt(l, "Srgb", "") :
        l \in {"R8", "R8G8", "R8G8B8", "B8G8R8", "R8G8B8A8", "B8G8R8A8"}}
    \cup {Fmt("A8B8G8R8", "Srgb", "Pack32")}
    \cup {Fmt(l, "Srgb", "Block") :
            l \in {"BC1_RGB", "BC1_RGBA", "BC2", "BC3", "BC7", "ETC2_R8G8B8",
                   "ETC2_R8G8B8A1", "ETC2_R8G8B8A8"} \cup AstcBlocks}

\* C8: on every format of the enumeration format_is_srgb yields a boolean, TRUE
\* exactly on the 29 listed sRGB formats, and the same on a repeated call.
C8_ExactlyTheSrgbFormats ==
    /\ Cardinality(ClaimedSrgbFormats) = 29
    /\ ClaimedSrgbFormats = {f \in Format : f.ty = "Srgb"}
    /\ pc = "srgb"
    /\ IsSome(fmt_ret) =>
          /\ Unwrap(fmt_ret) \in BOOLEAN
          /\ Unwrap(fmt_ret) = (Unwrap(fmt_arg) \in ClaimedSrgbFormats)
    /\ IsSome(fmt_prev) => fmt_ret = fmt_prev

\* C8 witness: format_is_srgb called twice on the last listed format.
C8_Witness ==
    /\ fmt_arg = Some(Fmt("ASTC_12x12", "Srgb", "Block"))
    /\ fmt_ret = Some(TRUE)
    /\ fmt_prev = Some(TRUE)

\* C9: once a Window exists its surface, device and queue never change, whatever
\* handle_resize does, and get_dimensions changes nothing of the Window.
C9_OnlySwapchainAndImages ==
    /\ [][IsSome(window) =>
            /\ IsSome(window')
            /\ \A k \in {"surface", "device", "queue"} :
                  Unwrap(window')[k] = Unwrap(window)[k]]_vars
    /\ [][(IsSome(ret') /\ ret' /= ret) =>
            (window' = window /\ pc' = pc /\ caps' = caps)]_vars

\* C9 witness: get_dimensions returned after a handle_resize call that retried
\* and then rebuilt the swapchain.
C9_Witness ==
    /\ IsSome(ret)
    /\ retries >= 1
    /\ Swapchain.id >= 2
    /\ Unwrap(window).queue = "queue"

\* C10: a handle_resize attempt that finds no current extent aborts without a
\* rebuild attempt and with the stored swapchain and images as they were.
C10_NoExtentAborts ==
    /\ [][(pc \in {"idle", "resize_retry"} /\ caps.current_extent = None
             /\ (pc' /= pc \/ buildResult' /= buildResult))
            => /\ pc' = "aborted"
               /\ window' = window
               /\ nextId' = nextId
               /\ buildResult' = (IF pc = "idle" THEN None ELSE buildResult)]_vars
    /\ [](abortedAt = "current_extent unwrap" =>
            (pc = "aborted" /\ caps.current_extent = None))

\* C10 witness: Window::new fell back to the requested size, then handle_resize
\* aborted on the undefined extent before any rebuild.
C10_Witness ==
    /\ pc = "aborted"
    /\ abortedAt = "current_extent unwrap"
    /\ Swapchain.id = 1
    /\ Swapchain.dimensions \in RequestedSizes
    /\ buildResult = None

====
